---- MODULE Spec2Model ----
(***************************************************************************)
(* Model of the CloudStash Manta storage driver (src/unnamed/part_000).    *)
(*                                                                         *)
(* Strings are sequences of one-character strings, so that                 *)
(* path.posix.normalize, the traversal regex, path.posix.join and          *)
(* path.dirname are computed character by character as Node computes them. *)
(***************************************************************************)
EXTENDS Integers, Sequences, FiniteSets, TLC

\* ------------------------------------------------------------------------
\* Bounds of the model
\* ------------------------------------------------------------------------

\* longest logical path given to toSafeLocalPath in SpecPath
MaxLen == 5

\* number of driver calls made in Spec
MaxCalls == 2

\* ------------------------------------------------------------------------
\* Characters and string helpers
\* ------------------------------------------------------------------------

DOT == "."
SLASH == "/"
BSLASH == "\\"

\* the characters logical paths are drawn from
PathChars == {DOT, SLASH, BSLASH, "a"}

DOTDOT == <<DOT, DOT>>

RECURSIVE SeqsUpTo(_, _)
SeqsUpTo(S, n) ==
    IF n = 0 THEN {<<>>}
    ELSE LET shorter == SeqsUpTo(S, n - 1)
         IN  shorter \cup {Append(s, c) : s \in {t \in shorter : Len(t) = n - 1}, c \in S}

Last(s) == s[Len(s)]
Front(s) == SubSeq(s, 1, Len(s) - 1)

IsPrefix(p, s) == Len(p) <= Len(s) /\ SubSeq(s, 1, Len(p)) = p

\* s.split('/'): the segments between the slashes of s, empty ones included
RECURSIVE SplitFrom(_, _, _)
SplitFrom(s, start, i) ==
    IF i > Len(s) THEN <<SubSeq(s, start, Len(s))>>
    ELSE IF s[i] = SLASH THEN <<SubSeq(s, start, i - 1)>> \o SplitFrom(s, i + 1, i + 1)
    ELSE SplitFrom(s, start, i + 1)

Split(s) == SplitFrom(s, 1, 1)

\* segs.join('/')
RECURSIVE JoinSegs(_)
JoinSegs(segs) ==
    IF Len(segs) = 0 THEN <<>>
    ELSE IF Len(segs) = 1 THEN segs[1]
    ELSE segs[1] \o <<SLASH>> \o JoinSegs(Tail(segs))

\* ------------------------------------------------------------------------
\* Node's path.posix, as used by the driver
\* ------------------------------------------------------------------------

\* normalizeString of path.posix: drops empty and '.' segments; a '..' removes
\* the segment before it, or is kept when there is none and allowAboveRoot
RECURSIVE normalizeSegs(_, _, _)
normalizeSegs(segs, res, allowAboveRoot) ==
    IF Len(segs) = 0 THEN res
    ELSE LET seg == Head(segs)
             rest == Tail(segs)
         IN  IF seg = <<>> \/ seg = <<DOT>> THEN normalizeSegs(rest, res, allowAboveRoot)
             ELSE IF seg = DOTDOT
             THEN IF Len(res) > 0 /\ Last(res) # DOTDOT
                  THEN normalizeSegs(rest, Front(res), allowAboveRoot)
                  ELSE IF allowAboveRoot
                  THEN normalizeSegs(rest, Append(res, DOTDOT), allowAboveRoot)
                  ELSE normalizeSegs(rest, res, allowAboveRoot)
             ELSE normalizeSegs(rest, Append(res, seg), allowAboveRoot)

normalizeString(p, allowAboveRoot) == JoinSegs(normalizeSegs(Split(p), <<>>, allowAboveRoot))

\* path.posix.normalize
posixNormalize(p) ==
    IF Len(p) = 0 THEN <<DOT>>
    ELSE LET isAbsolute == p[1] = SLASH
             trailingSeparator == Last(p) = SLASH
             n == normalizeString(p, ~isAbsolute)
         IN  IF Len(n) = 0
             THEN IF isAbsolute THEN <<SLASH>>
                  ELSE IF trailingSeparator THEN <<DOT, SLASH>> ELSE <<DOT>>
             ELSE LET t == IF trailingSeparator THEN Append(n, SLASH) ELSE n
                  IN  IF isAbsolute THEN <<SLASH>> \o t ELSE t

\* path.posix.join: the non-empty arguments joined by '/', then normalized
RECURSIVE joinArgs(_)
joinArgs(args) ==
    IF Len(args) = 0 THEN <<>>
    ELSE LET rest == joinArgs(Tail(args))
         IN  IF Len(Head(args)) = 0 THEN rest
             ELSE IF Len(rest) = 0 THEN Head(args)
             ELSE Head(args) \o <<SLASH>> \o rest

posixJoin(args) ==
    LET joined == joinArgs(args)
    IN  IF Len(joined) = 0 THEN <<DOT>> ELSE posixNormalize(joined)

\* path.dirname (posix): everything before the last '/' that is not a trailing one
RECURSIVE lastSlashBefore(_, _)
lastSlashBefore(p, i) ==
    IF i < 1 THEN 0
    ELSE IF p[i] = SLASH THEN i
    ELSE lastSlashBefore(p, i - 1)

RECURSIVE dropTrailingSlashes(_)
dropTrailingSlashes(p) ==
    IF Len(p) > 1 /\ Last(p) = SLASH THEN dropTrailingSlashes(Front(p)) ELSE p

posixDirname(p) ==
    IF Len(p) = 0 THEN <<DOT>>
    ELSE LET q == dropTrailingSlashes(p)
             e == lastSlashBefore(q, Len(q))
         IN  IF q = <<SLASH>> THEN <<SLASH>>
             ELSE IF e = 0 THEN <<DOT>>
             ELSE IF e = 1 THEN <<SLASH>>
             ELSE dropTrailingSlashes(SubSeq(q, 1, e - 1))

\* ------------------------------------------------------------------------
\* Configuration and tenants
\* ------------------------------------------------------------------------

\* params.basePath, "~~/stor/" in the example config
basePath == <<"~", "~", "/", "s", "t", "o", "r", "/">>

Acct1 == <<"A", "B", "1", "2", "C", "D", "3", "4", "E", "F", "5", "6", "7", "8">>
\* same first six characters as Acct1
Acct2 == <<"A", "B", "1", "2", "C", "D", "9", "9">>
Acct3 == <<"X", "Y", "0", "0", "Z", "Z", "3", "4">>
App1 == <<"a", "p", "p", "1">>
App2 == <<"a", "p", "p", "2">>

Accounts == {Acct1, Acct2, Acct3}
Apps == {App1, App2}
Users == [account_id : Accounts, app_id : Apps]

\* ------------------------------------------------------------------------
\* toSafeLocalPath
\* ------------------------------------------------------------------------

\* .replace(/^(\.\.[\/\\])+/, ''): removes every leading '..' that is followed
\* by '/' or '\'
RECURSIVE stripLeadingTraversal(_)
stripLeadingTraversal(s) ==
    IF Len(s) >= 3 /\ s[1] = DOT /\ s[2] = DOT /\ s[3] \in {SLASH, BSLASH}
    THEN stripLeadingTraversal(SubSeq(s, 4, Len(s)))
    ELSE s

safeFilename(fileName) == stripLeadingTraversal(posixNormalize(fileName))

\* a sharded variant: basePath/AB/12/CD/<account_id>/<app_id>/...
shardPrefix(account_id) ==
    IF Len(account_id) >= 6
    THEN SubSeq(account_id, 1, 2) \o <<SLASH>> \o SubSeq(account_id, 3, 4)
         \o <<SLASH>> \o SubSeq(account_id, 5, 6)
    ELSE account_id

toSafeLocalPathSharded(user, fileName) ==
    posixJoin(<<basePath, shardPrefix(user.account_id), user.account_id, user.app_id,
                safeFilename(fileName)>>)

toSafeLocalPath(user, fileName) ==
    posixJoin(<<basePath, user.account_id, user.app_id, safeFilename(fileName)>>)

\* ------------------------------------------------------------------------
\* JavaScript values
\* ------------------------------------------------------------------------

\* a missing property or argument; the empty string is <<>>
Undefined == <<"undefined">>

\* a value the conditions of the code take as true
Truthy(v) == v # Undefined /\ v # <<>>

UndefinedVal == [t |-> "undefined"]
NullVal == [t |-> "null"]
Num(n) == [t |-> "number", v |-> n]

\* ------------------------------------------------------------------------
\* The backend namespace (Manta), as the driver's calls see it
\* ------------------------------------------------------------------------

DirNode == [type |-> "directory"]
ObjNode(size) == [type |-> "object", size |-> size]

\* the backend's name of a path: its segments joined by single slashes
Canon(p) == JoinSegs(SelectSeq(Split(p), LAMBDA s : s # <<>>))

SegsOf(p) == SelectSeq(Split(p), LAMBDA s : s # <<>>)

\* the path itself and every ancestor directory of it
PrefixPaths(p) ==
    LET segs == SegsOf(p)
    IN  {JoinSegs(SubSeq(segs, 1, n)) : n \in 1..Len(segs)}

ParentOf(p) == JoinSegs(Front(SegsOf(p)))
BaseName(p) == Last(SegsOf(p))

Exists(fs, p) == Canon(p) \in DOMAIN fs
IsDir(fs, p) == Exists(fs, p) /\ fs[Canon(p)].type = "directory"
IsObj(fs, p) == Exists(fs, p) /\ fs[Canon(p)].type = "object"

ChildrenOf(fs, p) ==
    {q \in DOMAIN fs : Len(SegsOf(q)) = Len(SegsOf(p)) + 1 /\ IsPrefix(SegsOf(p), SegsOf(q))}

\* errors of the backend client: err.code
NoErr == [code |-> "null"]
ErrNotFoundLs == [code |-> "NOTFOUND"]
ErrNotFound == [code |-> "ResourceNotFound"]
ErrOther == [code |-> "InternalError"]

\* client.mkdirp(p): creates p and every missing ancestor as directories
MkdirpOk(fs, p) == \A q \in PrefixPaths(p) : q \in DOMAIN fs => fs[q].type = "directory"
MkdirpFs(fs, p) ==
    [q \in DOMAIN fs \cup PrefixPaths(p) |-> IF q \in PrefixPaths(p) THEN DirNode ELSE fs[q]]

\* client.ln(src, dst): a second name for the object src; src must be an
\* object and the parent of dst a directory
LnErr(fs, src, dst) ==
    IF ~Exists(fs, src) THEN ErrNotFound
    ELSE IF ~IsObj(fs, src) THEN ErrOther
    ELSE IF ~IsDir(fs, ParentOf(dst)) \/ IsDir(fs, dst) THEN ErrOther
    ELSE NoErr
LnFs(fs, src, dst) ==
    [q \in DOMAIN fs \cup {Canon(dst)} |-> IF q = Canon(dst) THEN fs[Canon(src)] ELSE fs[q]]

\* client.unlink(p): removes an object or an empty directory
UnlinkErr(fs, p) ==
    IF ~Exists(fs, p) THEN ErrNotFound
    ELSE IF IsDir(fs, p) /\ ChildrenOf(fs, Canon(p)) # {} THEN ErrOther
    ELSE NoErr
UnlinkFs(fs, p) == [q \in DOMAIN fs \ {Canon(p)} |-> fs[q]]

\* the descriptor the backend gives for a node: ls events and client.info
Descriptor(fs, q) ==
    IF fs[q].type = "object"
    THEN [type |-> "object", name |-> BaseName(q), size |-> Num(fs[q].size)]
    ELSE [type |-> "directory", name |-> BaseName(q), size |-> UndefinedVal]

RECURSIVE Perms(_)
Perms(S) ==
    IF S = {} THEN {<<>>}
    ELSE UNION {{<<x>> \o s : s \in Perms(S \ {x})} : x \in S}

\* the descriptors of the children of p, in any arrival order
Listings(fs, p) ==
    {[i \in 1..Len(s) |-> Descriptor(fs, s[i])] : s \in Perms(ChildrenOf(fs, Canon(p)))}

\* ------------------------------------------------------------------------
\* getEntryDetails
\* ------------------------------------------------------------------------

getEntryDetailsAllFiles(mantaEntry) ==
    [name |-> mantaEntry.name, tag |-> "file", size |-> mantaEntry.size]

getEntryDetails(mantaEntry) ==
    [name |-> mantaEntry.name,
     tag |-> IF mantaEntry.type = "object" THEN "file" ELSE "folder",
     size |-> mantaEntry.size]

\* ------------------------------------------------------------------------
\* State
\* ------------------------------------------------------------------------

VARIABLES
    resolved,   \* a toSafeLocalPath evaluation: its arguments and result
    params,     \* the configuration record given to module.exports
    built,      \* "unbuilt", "built", or "fatal" when construction threw
    key,        \* the key handed to manta.privateKeySigner
    backend,    \* the backend namespace: canonical path -> node
    calls,      \* the driver calls in progress or last completed: slot -> call record
    started     \* the number of driver calls made so far

vars == <<resolved, params, built, key, backend, calls, started>>

\* ------------------------------------------------------------------------
\* Construction: module.exports(params)
\* ------------------------------------------------------------------------

\* the characters of the bytes 32..126 (byte 96 under a stand-in name)
PrintableAscii == <<
   " ", "!", "\"", "#", "$", "%", "&", "'", "(", ")", "*", "+", ",", "-", ".", "/",
   "0", "1", "2", "3", "4", "5", "6", "7", "8", "9", ":", ";", "<", "=", ">", "?",
   "@", "A", "B", "C", "D", "E", "F", "G", "H", "I", "J", "K", "L", "M", "N", "O",
   "P", "Q", "R", "S", "T", "U", "V", "W", "X", "Y", "Z", "[", "\\", "]", "^", "_",
   "<grave>", "a", "b", "c", "d", "e", "f", "g", "h", "i", "j", "k", "l", "m", "n", "o",
   "p", "q", "r", "s", "t", "u", "v", "w", "x", "y", "z", "{", "|", "}", "~" >>

B64Alphabet == <<
   "A", "B", "C", "D", "E", "F", "G", "H", "I", "J", "K", "L", "M", "N", "O", "P",
   "Q", "R", "S", "T", "U", "V", "W", "X", "Y", "Z", "a", "b", "c", "d", "e", "f",
   "g", "h", "i", "j", "k", "l", "m", "n", "o", "p", "q", "r", "s", "t", "u", "v",
   "w", "x", "y", "z", "0", "1", "2", "3", "4", "5", "6", "7", "8", "9", "+", "/" >>

B64Value(c) == (CHOOSE i \in 1..Len(B64Alphabet) : B64Alphabet[i] = c) - 1

\* the bytes of a base64 text: four characters give three bytes, a last group
\* of two or three characters one or two bytes; '=' padding carries no bits
RECURSIVE b64Bytes(_)
b64Bytes(v) ==
    IF Len(v) < 2 THEN <<>>
    ELSE LET b1 == v[1] * 4 + v[2] \div 16
         IN  IF Len(v) = 2 THEN <<b1>>
             ELSE LET b2 == (v[2] % 16) * 16 + v[3] \div 4
                  IN  IF Len(v) = 3 THEN <<b1, b2>>
                      ELSE <<b1, b2, (v[3] % 4) * 64 + v[4]>> \o b64Bytes(SubSeq(v, 5, Len(v)))

\* new Buffer(s, 'base64').toString()
base64Decode(s) ==
    LET digits == SelectSeq(s, LAMBDA c : c # "=")
        bytes == b64Bytes([i \in 1..Len(digits) |-> B64Value(digits[i])])
    IN  [i \in 1..Len(bytes) |-> PrintableAscii[bytes[i] - 31]]

\* the local files fs.readFileSync can read: path -> contents
KeyFilePath == <<"/", "k">>
MissingFilePath == <<"/", "n">>
LocalFiles == [f \in {KeyFilePath} |-> <<"K", "3">>]

\* the config records: each key source present or absent
ConfigKeys == {Undefined, <<>>, <<"K", "1">>, <<"K", "2">>}
ConfigKey64s == {Undefined, <<>>, <<"S", "z", "E", "=">>, <<"S", "z", "I", "=">>, <<"S", "w", "=", "=">>, <<"S", "z", "I", "z">>}
ConfigKeyStores == {Undefined, KeyFilePath, MissingFilePath}

BackendUser == <<"u", "@", "d">>

Configs ==
    [key : ConfigKeys, key64 : ConfigKey64s, keyStore : ConfigKeyStores, user : {BackendUser}]

\* the configuration the driver of Spec and SpecPath was built from
DefaultParams == [key |-> <<"K", "1">>, key64 |-> Undefined, keyStore |-> Undefined, user |-> BackendUser]

\* lines 64-67: a key64 is decoded into params.key
paramsAfterKey64(p) ==
    IF Truthy(p.key64) THEN [p EXCEPT !.key = base64Decode(p.key64)] ELSE p

\* fs.readFileSync(params.keyStore, 'utf8') throws when there is no such file
readFileThrows(path) == path \notin DOMAIN LocalFiles

IdleCall ==
    [op |-> "none", user |-> [account_id |-> <<>>, app_id |-> <<>>],
     path |-> <<>>, newPath |-> <<>>, filePath |-> <<>>, newFilePath |-> <<>>,
     pc |-> "idle", after |-> {}, issued |-> <<>>, answers |-> <<>>,
     callbacks |-> <<>>, entries |-> <<>>, res |-> "none", items |-> <<>>,
     stream |-> <<>>,
     entryType |-> "", threw |-> FALSE]

\* the backend before any tenant wrote to it: the base path alone
EmptyBackend == [q \in PrefixPaths(basePath) |-> DirNode]

Construct ==
    /\ built = "unbuilt"
    /\ LET p == paramsAfterKey64(params)
       IN  /\ params' = p
           /\ IF Truthy(p.key)
              THEN built' = "built" /\ key' = p.key
              ELSE IF readFileThrows(p.keyStore)
              THEN built' = "fatal" /\ key' = key
              ELSE built' = "built" /\ key' = LocalFiles[p.keyStore]
    /\ UNCHANGED <<resolved, backend, calls, started>>

InitBuild ==
    /\ params \in Configs
    /\ built = "unbuilt"
    /\ key = Undefined
    /\ resolved = [user |-> IdleCall.user, fileName |-> <<>>, done |-> TRUE, filePath |-> <<>>]
    /\ backend = EmptyBackend
    /\ calls = <<>>
    /\ started = 0

NextBuild == Construct

SpecBuild == InitBuild /\ [][NextBuild]_vars

\* ------------------------------------------------------------------------
\* SpecPath: toSafeLocalPath applied to every tenant and logical path
\* ------------------------------------------------------------------------

LogicalPaths == SeqsUpTo(PathChars, MaxLen)

\* the arguments of a call of toSafeLocalPath
InitPath ==
    /\ \E user \in Users, fileName \in LogicalPaths :
          resolved = [user |-> user, fileName |-> fileName, done |-> FALSE, filePath |-> <<>>]
    /\ params = DefaultParams
    /\ built = "built"
    /\ key = DefaultParams.key
    /\ backend = EmptyBackend
    /\ calls = <<>>
    /\ started = 0

ResolvePath ==
    /\ ~resolved.done
    /\ resolved' = [resolved EXCEPT !.done = TRUE,
                                    !.filePath = toSafeLocalPath(resolved.user, resolved.fileName)]
    /\ UNCHANGED <<params, built, key, backend, calls, started>>

NextPath == ResolvePath

SpecPath == InitPath /\ [][NextPath]_vars

\* ------------------------------------------------------------------------
\* The driver's operations: what each function and each callback does to
\* the call it belongs to
\* ------------------------------------------------------------------------

EntryVal(e) == [t |-> "entry", v |-> e]
ListVal(es) == [t |-> "entries", v |-> es]
StreamVal(p) == [t |-> "stream", v |-> p]
SinkVal(p) == [t |-> "sink", v |-> p]
IdVal(id) == [t |-> "uploadId", v |-> id]

\* a call made on the backend client
Issued(fn, args, account) == [fn |-> fn, args |-> args, account |-> account]

\* callback(err, result) of the caller
Cb(call, err, result) ==
    [call EXCEPT !.callbacks = Append(@, [err |-> err, result |-> result])]

Issue(call, fn, args, account) ==
    [call EXCEPT !.issued = Append(@, Issued(fn, args, account)), !.pc = fn]

Finish(call) == [call EXCEPT !.pc = "done"]

\* the arguments of a call and the paths its function resolves on entry
NewCall(op, user, path, newPath) ==
    [IdleCall EXCEPT !.op = op, !.user = user, !.path = path, !.newPath = newPath,
                     !.filePath = toSafeLocalPath(user, path),
                     !.newFilePath = toSafeLocalPath(user, newPath)]

filePathOf(call) == call.filePath
newFilePathOf(call) == call.newFilePath

createDirectory(user, dirPath) ==
    LET call == NewCall("createDirectory", user, dirPath, <<>>)
    IN  Issue(call, "mkdirp", <<filePathOf(call)>>, <<>>)

createDirectoryOnMkdirpRetrying(call, err) ==
    IF err # NoErr
    THEN IF Len(call.issued) < 2
         THEN Issue(call, "mkdirp", <<filePathOf(call)>>, <<>>)
         ELSE Finish(Cb(call, err, UndefinedVal))
    ELSE LET entry == [type |-> "directory", name |-> call.path, size |-> UndefinedVal]
         IN  Finish(Cb(call, NoErr, EntryVal(getEntryDetails(entry))))

createDirectoryOnMkdirp(call, err) ==
    IF err # NoErr
    THEN Finish(Cb(call, err, UndefinedVal))
    ELSE LET entry == [type |-> "directory", name |-> call.path, size |-> UndefinedVal]
         IN  Finish(Cb(call, NoErr, EntryVal(getEntryDetails(entry))))

listDirectoryOfRoot(user, dirpath) ==
    LET call == [NewCall("listDirectory", user, <<>>, <<>>) EXCEPT !.path = dirpath]
    IN  Issue(call, "ls", <<filePathOf(call)>>, <<>>)

listDirectory(user, dirpath) ==
    LET call == NewCall("listDirectory", user, dirpath, <<>>)
    IN  Issue(call, "ls", <<filePathOf(call)>>, <<>>)

\* the callback of client.ls; hasRes: the client passed a result emitter.
\* res.on(...) on a missing res throws a TypeError
listDirectoryOnLs(call, err, hasRes, items) ==
    LET c1 == [call EXCEPT !.entries = <<>>]
        c2 == IF err # NoErr
              THEN IF err.code = "NOTFOUND" \/ call.path = <<>>
                   THEN Cb(c1, NoErr, ListVal(c1.entries))
                   ELSE Cb(c1, err, UndefinedVal)
              ELSE c1
    IN  IF hasRes
        THEN [c2 EXCEPT !.pc = "stream", !.res = "open", !.items = items]
        ELSE [c2 EXCEPT !.pc = "done", !.res = "undefined", !.threw = TRUE]

listDirectoryOnEntryPrepending(call, obj) ==
    [call EXCEPT !.entries = <<getEntryDetails(obj)>> \o @, !.items = Tail(@)]

\* res.on('object') and res.on('directory')
listDirectoryOnEntry(call, obj) ==
    [call EXCEPT !.entries = Append(@, getEntryDetails(obj)), !.items = Tail(@)]

\* res.once('error')
listDirectoryOnError(call, err) ==
    [Cb(call, err, UndefinedVal) EXCEPT !.res = "errored", !.items = <<>>]

\* res.once('end')
listDirectoryOnEnd(call) ==
    [Finish(Cb(call, NoErr, ListVal(call.entries))) EXCEPT !.res = "ended"]

getObject(user, filename) ==
    LET call == NewCall("getObject", user, filename, <<>>)
    IN  Issue(call, "get", <<filePathOf(call)>>, <<>>)

\* the callback of client.get: the error branch does not return, so
\* callback(null, stream) runs after it
getObjectOnGet(call, err, stream) ==
    LET c1 == IF err # NoErr
              THEN IF err.code = "ResourceNotFound"
                   THEN Cb(call, NoErr, NullVal)
                   ELSE Cb(call, err, UndefinedVal)
              ELSE call
    IN  Finish(Cb(c1, NoErr, stream))

putObject(user, filename) ==
    LET call == NewCall("putObject", user, filename, <<>>)
    IN  Issue(call, "mkdirp", <<posixDirname(filePathOf(call))>>, <<>>)

putObjectOnMkdirp(call, err) ==
    IF err # NoErr
    THEN Finish(Cb(call, err, UndefinedVal))
    ELSE LET c1 == Issue(call, "createWriteStream", <<filePathOf(call)>>, <<>>)
         IN  [Cb(c1, NoErr, SinkVal(filePathOf(call))) EXCEPT !.pc = "sink"]

copyObject(user, filename, newFilename) ==
    LET call == NewCall("copyObject", user, filename, newFilename)
    IN  Issue(call, "mkdirp", <<posixDirname(newFilePathOf(call))>>, <<>>)

copyObjectOnMkdirp(call, err) ==
    IF err # NoErr
    THEN Finish(Cb(call, err, UndefinedVal))
    ELSE Issue(call, "ln", <<filePathOf(call), newFilePathOf(call)>>, <<>>)

copyObjectOnLnIgnoringErr(call, err) ==
    LET entry == [type |-> "object", name |-> call.newPath, size |-> UndefinedVal]
    IN  Finish(Cb(call, NoErr, EntryVal(getEntryDetails(entry))))

copyObjectOnLn(call, err) ==
    IF err # NoErr
    THEN Finish(Cb(call, err, UndefinedVal))
    ELSE LET entry == [type |-> "object", name |-> call.newPath, size |-> UndefinedVal]
         IN  Finish(Cb(call, NoErr, EntryVal(getEntryDetails(entry))))

moveObject(user, filename, newFilename) ==
    LET call == NewCall("moveObject", user, filename, newFilename)
    IN  Issue(call, "mkdirp", <<posixDirname(newFilePathOf(call))>>, <<>>)

moveObjectOnMkdirp(call, err) ==
    IF err # NoErr
    THEN Finish(Cb(call, err, UndefinedVal))
    ELSE Issue(call, "ln", <<filePathOf(call), newFilePathOf(call)>>, <<>>)

moveObjectOnLnIgnoringErr(call, err) ==
    Issue(call, "unlink", <<filePathOf(call)>>, <<>>)

moveObjectOnLn(call, err) ==
    IF err # NoErr
    THEN Finish(Cb(call, err, UndefinedVal))
    ELSE Issue(call, "unlink", <<filePathOf(call)>>, <<>>)

moveObjectOnUnlinkIgnoringErr(call, err) ==
    LET entry == [type |-> "object", name |-> call.newPath, size |-> UndefinedVal]
    IN  Finish(Cb(call, NoErr, EntryVal(getEntryDetails(entry))))

moveObjectOnUnlink(call, err) ==
    IF err # NoErr
    THEN Finish(Cb(call, err, UndefinedVal))
    ELSE LET entry == [type |-> "object", name |-> call.newPath, size |-> UndefinedVal]
         IN  Finish(Cb(call, NoErr, EntryVal(getEntryDetails(entry))))

deleteObject(user, filename) ==
    LET call == NewCall("deleteObject", user, filename, <<>>)
    IN  Issue(call, "info", <<filePathOf(call)>>, <<>>)

deleteObjectOnInfoAsObject(call, err, info) ==
    IF err # NoErr
    THEN Finish(Cb(call, err, UndefinedVal))
    ELSE Issue([call EXCEPT !.entryType = "object"], "unlink", <<filePathOf(call)>>, <<>>)

deleteObjectOnInfo(call, err, info) ==
    IF err # NoErr
    THEN Finish(Cb(call, err, UndefinedVal))
    ELSE LET type == IF info.extension = "directory" THEN "directory" ELSE "object"
         IN  Issue([call EXCEPT !.entryType = type], "unlink", <<filePathOf(call)>>, <<>>)

deleteObjectOnUnlink(call, err) ==
    IF err # NoErr
    THEN Finish(Cb(call, err, UndefinedVal))
    ELSE LET entry == [name |-> call.path, type |-> call.entryType, size |-> UndefinedVal]
         IN  Finish(Cb(call, NoErr, EntryVal(getEntryDetails(entry))))

\* the staging path of every multipart upload
tmpPath == posixJoin(<<basePath, <<"t", "e", "m", "p", "0", "0", "0", "0">>>>)

startMultipartUploadPerTenant(user, account) ==
    LET call == NewCall("startMultipartUpload", user, <<>>, <<>>)
        tenantPath == toSafeLocalPath(user, <<"t", "e", "m", "p", "0", "0", "0", "0">>)
    IN  Issue(call, "createUpload", <<tenantPath>>, account)

startMultipartUpload(user, account) ==
    LET call == NewCall("startMultipartUpload", user, <<>>, <<>>)
    IN  Issue(call, "createUpload", <<tmpPath>>, account)

startMultipartUploadOnCreateUpload(call, err, uploadId) ==
    IF err # NoErr
    THEN Finish(Cb(call, err, UndefinedVal))
    ELSE Finish(Cb(call, NoErr, IdVal(uploadId)))

\* ------------------------------------------------------------------------
\* Spec: driver calls, each a chain of backend calls, running concurrently
\* ------------------------------------------------------------------------

\* two calls run at a time; a slot is taken again once its call completed
CallIds == {1, 2}

Tenant1 == [account_id |-> Acct1, app_id |-> App1]
Tenant2 == [account_id |-> Acct3, app_id |-> App1]
DriverUsers == {Tenant1, Tenant2}
\* the tenant whose files the calls of Spec work on
FileUsers == {Tenant1}

NotesDir == <<"n", "o", "t", "e", "s">>
TodoFile == <<"n", "o", "t", "e", "s", "/", "t", "o", "d", "o", ".", "t", "x", "t">>
DriverPaths == {<<>>, NotesDir, TodoFile}
\* the source and destination paths of copyObject and moveObject
NamedPaths == {NotesDir, TodoFile}

UploadIds == {<<"u", "p", "1">>}

\* a backend in which Tenant1 has written notes/todo.txt
SeededBackend ==
    LET file == toSafeLocalPath(Tenant1, TodoFile)
        dirs == MkdirpFs(EmptyBackend, posixDirname(file))
    IN  [q \in DOMAIN dirs \cup {Canon(file)} |->
            IF q = Canon(file) THEN ObjNode(Len(TodoFile)) ELSE dirs[q]]

\* the driver once constructed, no call made yet, over the namespace fs
InitOver(fs) ==
    /\ params = DefaultParams
    /\ built = "built"
    /\ key = DefaultParams.key
    /\ backend = fs
    /\ calls = [c \in CallIds |-> IdleCall]
    /\ started = 0
    /\ resolved = [user |-> IdleCall.user, fileName |-> <<>>, done |-> TRUE, filePath |-> <<>>]

Init == \E fs \in {EmptyBackend, SeededBackend} : InitOver(fs)

\* a call has delivered everything it will deliver
Completed(call) == call.pc = "done"

\* a call takes the first slot never used, or else the first slot whose call
\* completed
CanStart(c) ==
    /\ built = "built"
    /\ started < MaxCalls
    /\ \/ calls[c].pc = "idle" /\ \A d \in CallIds : d < c => calls[d].pc # "idle"
       \/ /\ Completed(calls[c])
          /\ \A d \in CallIds : calls[d].pc # "idle" /\ (d < c => ~Completed(calls[d]))

\* the calls once `call` has started in slot c; after: the slots whose calls
\* had completed by then
StartIn(c, call) ==
    [d \in CallIds |->
        IF d = c
        THEN [call EXCEPT !.after = {e \in CallIds \ {c} : Completed(calls[e])}]
        ELSE [calls[d] EXCEPT !.after = @ \ {c}]]

\* the answer of the backend to the last call made on it
Answered(call, err) == [call EXCEPT !.answers = Append(@, err)]

\* the events the result emitter of ls will emit unless it fails, in order
Emitting(call, items) == [call EXCEPT !.stream = items]

Pending(c, op, pc) == calls[c].op = op /\ calls[c].pc = pc

\* a backend call that fails leaves the namespace as it was
Failed(err) == err # NoErr /\ backend' = backend

Rest == <<resolved, params, built, key, started>>

\* client.mkdirp(p, cb) answers
MkdirpAnswers(p, err) ==
    \/ err = ErrOther /\ Failed(err)
    \/ err = NoErr /\ MkdirpOk(backend, p) /\ backend' = MkdirpFs(backend, p)

\* client.ln(src, dst, cb) answers
LnAnswers(src, dst, err) ==
    \/ err = ErrOther /\ Failed(err)
    \/ err = LnErr(backend, src, dst) /\ Failed(err)
    \/ err = NoErr /\ LnErr(backend, src, dst) = NoErr /\ backend' = LnFs(backend, src, dst)

\* client.unlink(p, cb) answers
UnlinkAnswers(p, err) ==
    \/ err = ErrOther /\ Failed(err)
    \/ err = UnlinkErr(backend, p) /\ Failed(err)
    \/ err = NoErr /\ UnlinkErr(backend, p) = NoErr /\ backend' = UnlinkFs(backend, p)

\* the calls a caller makes, each with the state its function leaves it in
CreateDirectoryCalls ==
    {createDirectory(user, dirPath) : user \in FileUsers, dirPath \in DriverPaths}

InvokeCreateDirectory(c) ==
    /\ CanStart(c)
    /\ \E call \in CreateDirectoryCalls : calls' = StartIn(c, call)
    /\ started' = started + 1
    /\ UNCHANGED <<resolved, params, built, key, backend>>

CreateDirectoryMkdirpDone(c) ==
    /\ Pending(c, "createDirectory", "mkdirp")
    /\ \E err \in {NoErr, ErrOther} :
          /\ MkdirpAnswers(filePathOf(calls[c]), err)
          /\ calls' = [calls EXCEPT ![c] = createDirectoryOnMkdirp(Answered(@, err), err)]
    /\ UNCHANGED Rest

ListDirectoryCalls ==
    {listDirectory(user, dirpath) : user \in FileUsers, dirpath \in DriverPaths}

InvokeListDirectory(c) ==
    /\ CanStart(c)
    /\ \E call \in ListDirectoryCalls : calls' = StartIn(c, call)
    /\ started' = started + 1
    /\ UNCHANGED <<resolved, params, built, key, backend>>

ListDirectoryLsDone(c) ==
    /\ Pending(c, "listDirectory", "ls")
    /\ LET p == filePathOf(calls[c])
       IN  \/ /\ IsDir(backend, p)
              /\ \E items \in Listings(backend, p) :
                    calls' = [calls EXCEPT ![c] =
                                 listDirectoryOnLs(Emitting(Answered(@, NoErr), items),
                                                   NoErr, TRUE, items)]
           \/ \E err \in {ErrNotFoundLs, ErrOther}, hasRes \in BOOLEAN :
                 /\ err = ErrNotFoundLs => ~Exists(backend, p)
                 /\ calls' = [calls EXCEPT ![c] =
                                 listDirectoryOnLs(Answered(@, err), err, hasRes, <<>>)]
    /\ UNCHANGED <<backend, resolved, params, built, key, started>>

ListDirectoryResEntry(c) ==
    /\ Pending(c, "listDirectory", "stream")
    /\ calls[c].res = "open"
    /\ calls[c].items # <<>>
    /\ calls' = [calls EXCEPT ![c] = listDirectoryOnEntry(@, Head(@.items))]
    /\ UNCHANGED <<backend, resolved, params, built, key, started>>

ListDirectoryResError(c) ==
    /\ Pending(c, "listDirectory", "stream")
    /\ calls[c].res = "open"
    /\ calls' = [calls EXCEPT ![c] = listDirectoryOnError(@, ErrOther)]
    /\ UNCHANGED <<backend, resolved, params, built, key, started>>

ListDirectoryResEnd(c) ==
    /\ Pending(c, "listDirectory", "stream")
    /\ \/ calls[c].res = "open" /\ calls[c].items = <<>>
       \/ calls[c].res = "errored"
    /\ calls' = [calls EXCEPT ![c] = listDirectoryOnEnd(@)]
    /\ UNCHANGED <<backend, resolved, params, built, key, started>>

GetObjectCalls ==
    {getObject(user, filename) : user \in FileUsers, filename \in DriverPaths}

InvokeGetObject(c) ==
    /\ CanStart(c)
    /\ \E call \in GetObjectCalls : calls' = StartIn(c, call)
    /\ started' = started + 1
    /\ UNCHANGED <<resolved, params, built, key, backend>>

GetObjectGetDone(c) ==
    /\ Pending(c, "getObject", "get")
    /\ LET p == filePathOf(calls[c])
       IN  \/ /\ Exists(backend, p)
              /\ calls' = [calls EXCEPT ![c] =
                              getObjectOnGet(Answered(@, NoErr), NoErr, StreamVal(p))]
           \/ \E err \in {ErrNotFound, ErrOther} :
                 /\ err = ErrNotFound => ~Exists(backend, p)
                 /\ calls' = [calls EXCEPT ![c] = getObjectOnGet(Answered(@, err), err, UndefinedVal)]
    /\ UNCHANGED <<backend, resolved, params, built, key, started>>

PutObjectCalls ==
    {putObject(user, filename) : user \in FileUsers, filename \in DriverPaths}

InvokePutObject(c) ==
    /\ CanStart(c)
    /\ \E call \in PutObjectCalls : calls' = StartIn(c, call)
    /\ started' = started + 1
    /\ UNCHANGED <<resolved, params, built, key, backend>>

PutObjectMkdirpDone(c) ==
    /\ Pending(c, "putObject", "mkdirp")
    /\ \E err \in {NoErr, ErrOther} :
          /\ MkdirpAnswers(posixDirname(filePathOf(calls[c])), err)
          /\ calls' = [calls EXCEPT ![c] = putObjectOnMkdirp(Answered(@, err), err)]
    /\ UNCHANGED Rest

\* the caller writes to the sink and closes it: the object exists from then on
PutObjectSinkClosed(c) ==
    /\ Pending(c, "putObject", "sink")
    /\ LET p == filePathOf(calls[c])
       IN  IF IsDir(backend, ParentOf(p)) /\ ~IsDir(backend, p)
           THEN backend' = [q \in DOMAIN backend \cup {Canon(p)} |->
                               IF q = Canon(p) THEN ObjNode(0) ELSE backend[q]]
           ELSE backend' = backend
    /\ calls' = [calls EXCEPT ![c] = Finish(@)]
    /\ UNCHANGED Rest

CopyObjectCalls ==
    {copyObject(user, filename, newFilename) :
        user \in FileUsers, filename \in NamedPaths, newFilename \in NamedPaths}

InvokeCopyObject(c) ==
    /\ CanStart(c)
    /\ \E call \in CopyObjectCalls : calls' = StartIn(c, call)
    /\ started' = started + 1
    /\ UNCHANGED <<resolved, params, built, key, backend>>

CopyObjectMkdirpDone(c) ==
    /\ Pending(c, "copyObject", "mkdirp")
    /\ \E err \in {NoErr, ErrOther} :
          /\ MkdirpAnswers(posixDirname(newFilePathOf(calls[c])), err)
          /\ calls' = [calls EXCEPT ![c] = copyObjectOnMkdirp(Answered(@, err), err)]
    /\ UNCHANGED Rest

CopyObjectLnDone(c) ==
    /\ Pending(c, "copyObject", "ln")
    /\ \E err \in {NoErr, ErrNotFound, ErrOther} :
          /\ LnAnswers(filePathOf(calls[c]), newFilePathOf(calls[c]), err)
          /\ calls' = [calls EXCEPT ![c] = copyObjectOnLn(Answered(@, err), err)]
    /\ UNCHANGED Rest

MoveObjectCalls ==
    {moveObject(user, filename, newFilename) :
        user \in FileUsers, filename \in NamedPaths, newFilename \in NamedPaths}

InvokeMoveObject(c) ==
    /\ CanStart(c)
    /\ \E call \in MoveObjectCalls : calls' = StartIn(c, call)
    /\ started' = started + 1
    /\ UNCHANGED <<resolved, params, built, key, backend>>

MoveObjectMkdirpDone(c) ==
    /\ Pending(c, "moveObject", "mkdirp")
    /\ \E err \in {NoErr, ErrOther} :
          /\ MkdirpAnswers(posixDirname(newFilePathOf(calls[c])), err)
          /\ calls' = [calls EXCEPT ![c] = moveObjectOnMkdirp(Answered(@, err), err)]
    /\ UNCHANGED Rest

MoveObjectLnDone(c) ==
    /\ Pending(c, "moveObject", "ln")
    /\ \E err \in {NoErr, ErrNotFound, ErrOther} :
          /\ LnAnswers(filePathOf(calls[c]), newFilePathOf(calls[c]), err)
          /\ calls' = [calls EXCEPT ![c] = moveObjectOnLn(Answered(@, err), err)]
    /\ UNCHANGED Rest

MoveObjectUnlinkDone(c) ==
    /\ Pending(c, "moveObject", "unlink")
    /\ \E err \in {NoErr, ErrNotFound, ErrOther} :
          /\ UnlinkAnswers(filePathOf(calls[c]), err)
          /\ calls' = [calls EXCEPT ![c] = moveObjectOnUnlink(Answered(@, err), err)]
    /\ UNCHANGED Rest

DeleteObjectCalls ==
    {deleteObject(user, filename) : user \in FileUsers, filename \in DriverPaths}

InvokeDeleteObject(c) ==
    /\ CanStart(c)
    /\ \E call \in DeleteObjectCalls : calls' = StartIn(c, call)
    /\ started' = started + 1
    /\ UNCHANGED <<resolved, params, built, key, backend>>

\* client.info(p, cb): the descriptor of a directory has extension "directory"
DeleteObjectInfoDone(c) ==
    /\ Pending(c, "deleteObject", "info")
    /\ LET p == filePathOf(calls[c])
       IN  \/ /\ Exists(backend, p)
              /\ LET info == [extension |-> IF IsDir(backend, p) THEN "directory" ELSE "txt"]
                 IN  calls' = [calls EXCEPT ![c] =
                                  deleteObjectOnInfo(Answered(@, NoErr), NoErr, info)]
           \/ \E err \in {ErrNotFound, ErrOther} :
                 /\ err = ErrNotFound => ~Exists(backend, p)
                 /\ calls' = [calls EXCEPT ![c] =
                              deleteObjectOnInfo(Answered(@, err), err, [extension |-> ""])]
    /\ UNCHANGED <<backend, resolved, params, built, key, started>>

DeleteObjectUnlinkDone(c) ==
    /\ Pending(c, "deleteObject", "unlink")
    /\ \E err \in {NoErr, ErrNotFound, ErrOther} :
          /\ UnlinkAnswers(filePathOf(calls[c]), err)
          /\ calls' = [calls EXCEPT ![c] = deleteObjectOnUnlink(Answered(@, err), err)]
    /\ UNCHANGED Rest

InvokeStartMultipartUpload(c) ==
    /\ CanStart(c)
    /\ \E user \in DriverUsers :
          calls' = StartIn(c, startMultipartUpload(user, params.user))
    /\ started' = started + 1
    /\ UNCHANGED <<resolved, params, built, key, backend>>

StartMultipartUploadDone(c) ==
    /\ Pending(c, "startMultipartUpload", "createUpload")
    /\ \/ \E uploadId \in UploadIds :
             calls' = [calls EXCEPT ![c] =
                          startMultipartUploadOnCreateUpload(Answered(@, NoErr), NoErr, uploadId)]
       \/ calls' = [calls EXCEPT ![c] =
                       startMultipartUploadOnCreateUpload(Answered(@, ErrOther), ErrOther, <<>>)]
    /\ UNCHANGED <<backend, resolved, params, built, key, started>>

Next ==
    \E c \in CallIds :
        \/ InvokeCreateDirectory(c)
        \/ CreateDirectoryMkdirpDone(c)
        \/ InvokeListDirectory(c)
        \/ ListDirectoryLsDone(c)
        \/ ListDirectoryResEntry(c)
        \/ ListDirectoryResError(c)
        \/ ListDirectoryResEnd(c)
        \/ InvokeGetObject(c)
        \/ GetObjectGetDone(c)
        \/ InvokePutObject(c)
        \/ PutObjectMkdirpDone(c)
        \/ PutObjectSinkClosed(c)
        \/ InvokeCopyObject(c)
        \/ CopyObjectMkdirpDone(c)
        \/ CopyObjectLnDone(c)
        \/ InvokeMoveObject(c)
        \/ MoveObjectMkdirpDone(c)
        \/ MoveObjectLnDone(c)
        \/ MoveObjectUnlinkDone(c)
        \/ InvokeDeleteObject(c)
        \/ DeleteObjectInfoDone(c)
        \/ DeleteObjectUnlinkDone(c)
        \/ InvokeStartMultipartUpload(c)
        \/ StartMultipartUploadDone(c)

Spec == Init /\ [][Next]_vars

\* ------------------------------------------------------------------------
\* SpecMoves: moves of one object to different destinations
\* ------------------------------------------------------------------------

RaceDsts == {<<"a">>, <<"b">>}

MoveRaceCalls == {moveObject(Tenant1, TodoFile, newFilename) : newFilename \in RaceDsts}

InitMoves == InitOver(SeededBackend)

InvokeMoveRace(c) ==
    /\ CanStart(c)
    /\ \E call \in MoveRaceCalls : calls' = StartIn(c, call)
    /\ started' = started + 1
    /\ UNCHANGED <<resolved, params, built, key, backend>>

NextMoves ==
    \E c \in CallIds :
        \/ InvokeMoveRace(c)
        \/ MoveObjectMkdirpDone(c)
        \/ MoveObjectLnDone(c)
        \/ MoveObjectUnlinkDone(c)

SpecMoves == InitMoves /\ [][NextMoves]_vars

\* ------------------------------------------------------------------------
\* SpecList: listings of a folder that holds files and folders
\* ------------------------------------------------------------------------

\* Tenant1's root holds the files a and c and the folder b
ListBackend ==
    LET dirs == MkdirpFs(EmptyBackend, toSafeLocalPath(Tenant1, <<"b">>))
        a == Canon(toSafeLocalPath(Tenant1, <<"a">>))
        c == Canon(toSafeLocalPath(Tenant1, <<"c">>))
    IN  [q \in DOMAIN dirs \cup {a, c} |->
            IF q = a THEN ObjNode(1) ELSE IF q = c THEN ObjNode(2) ELSE dirs[q]]

InitList == InitOver(ListBackend)

NextList ==
    \E c \in CallIds :
        \/ InvokeListDirectory(c)
        \/ ListDirectoryLsDone(c)
        \/ ListDirectoryResEntry(c)
        \/ ListDirectoryResError(c)
        \/ ListDirectoryResEnd(c)

SpecList == InitList /\ [][NextList]_vars

\* the driver over a backend in which nothing has been stored yet
InitEmpty == InitOver(EmptyBackend)

SpecEmpty == InitEmpty /\ [][Next]_vars

\* ------------------------------------------------------------------------
\* Path claims (SpecPath)
\* ------------------------------------------------------------------------

NonEmptySeg(s) == s # <<>>

\* the directory names along a path
Segs(p) == SelectSeq(Split(p), NonEmptySeg)

HasSeg(segs, seg) == \E i \in 1..Len(segs) : segs[i] = seg

BaseSegs == Segs(basePath)

\* <basePath>/<account_id>/<app_id>
TenantRootSegs(user) == BaseSegs \o <<user.account_id, user.app_id>>

\* the names of a relative path that '.' and empty segments do not count among
NotDotSeg(s) == s # <<>> /\ s # <<DOT>>
NameSegs(p) == SelectSeq(Split(p), NotDotSeg)

\* C1: a resolved path has no '..' segment and is the tenant root
\* <basePath>/<account_id>/<app_id> or lies below it, whatever the logical path
PathSafety ==
    resolved.done =>
        /\ ~HasSeg(Segs(resolved.filePath), DOTDOT)
        /\ IsPrefix(TenantRootSegs(resolved.user), Segs(resolved.filePath))

\* C2 as stated: the resolved path is
\* <basePath>/<AB>/<12>/<CD>/<account_id>/<app_id>/<sanitized path>
ShardSegs(account_id) ==
    <<SubSeq(account_id, 1, 2), SubSeq(account_id, 3, 4), SubSeq(account_id, 5, 6)>>

KeyByStatedOrder(p) ==
    IF Truthy(p.key) THEN p.key
    ELSE IF Truthy(p.key64) THEN base64Decode(p.key64)
    ELSE LocalFiles[p.keyStore]

\* C10: the key handed to the signer is the explicit key if present, otherwise
\* the decoded key64, otherwise the contents of the keyStore file
KeyResolutionOrder ==
    [][built = "unbuilt" /\ built' = "built" => key' = KeyByStatedOrder(params)]_vars

\* ------------------------------------------------------------------------
\* Driver claims (Spec)
\* ------------------------------------------------------------------------

Failure(err) == [err |-> err, result |-> UndefinedVal]
Success(result) == [err |-> NoErr, result |-> result]

\* C3: the caller's callback is invoked exactly once per operation, whatever
\* the backend answers: never twice, and once by the time the call completed
ExactlyOnceCompletion ==
    \A c \in CallIds :
        /\ Len(calls[c].callbacks) <= 1
        /\ Completed(calls[c]) => Len(calls[c].callbacks) = 1

\* what was delivered to the caller of a move
MoveFailedAtUnlink(call) ==
    /\ call.op = "moveObject" /\ Completed(call)
    /\ Len(call.answers) = 3
    /\ call.answers[1] = NoErr /\ call.answers[2] = NoErr /\ call.answers[3] # NoErr

MoveFailedBeforeLinked(call) ==
    /\ call.op = "moveObject" /\ Completed(call)
    /\ Len(call.answers) \in {1, 2}
    /\ Last(call.answers) # NoErr

\* C4: a move whose unlink failed after its link succeeded reports something
\* the caller can tell from what a move that failed at mkdirp or link reports
MovePartialFailureDistinct ==
    \A c, d \in CallIds :
        MoveFailedAtUnlink(calls[c]) /\ MoveFailedBeforeLinked(calls[d])
            => calls[c].callbacks # calls[d].callbacks

\* C5: getObject delivers exactly one outcome: null and no error when the read
\* fails with not-found, the error when it fails otherwise, the stream when it
\* succeeds
GetObjectOutcome ==
    \A c \in CallIds :
        calls[c].op = "getObject" /\ Completed(calls[c]) =>
            LET err == calls[c].answers[1]
            IN  calls[c].callbacks =
                    << IF err = NoErr THEN Success(StreamVal(calls[c].filePath))
                       ELSE IF err = ErrNotFound THEN Success(NullVal)
                       ELSE Failure(err) >>

\* C6: listing the root of a tenant whose root does not exist (ls fails with
\* not-found and passes no result emitter) delivers an empty collection and
\* no error, and the operation does not throw afterwards
RootListingTolerance ==
    \A c \in CallIds :
        /\ calls[c].op = "listDirectory" /\ calls[c].path = <<>>
        /\ calls[c].answers = <<ErrNotFoundLs>> /\ calls[c].res = "undefined"
        => /\ calls[c].callbacks = <<Success(ListVal(<<>>))>>
           /\ ~calls[c].threw

\* C7: when ls fails with an error that is not not-found, listDirectory
\* reports that error, also for the tenant root ""
ListSuppressesOnlyNotFound ==
    \A c \in CallIds :
        /\ calls[c].op = "listDirectory"
        /\ Len(calls[c].answers) = 1
        /\ calls[c].answers[1] \notin {NoErr, ErrNotFoundLs}
        => /\ Len(calls[c].callbacks) >= 1
           /\ calls[c].callbacks[1] = Failure(calls[c].answers[1])

CreatedDirectory(call) ==
    call.op = "createDirectory" /\ Completed(call) /\ call.answers = <<NoErr>>

\* C8: two createDirectory calls on the same path whose mkdirp succeeded both
\* report success with equal entries {name: the path as supplied, folder}
IdempotentCreateDirectory ==
    \A c, d \in CallIds :
        /\ CreatedDirectory(calls[c]) /\ CreatedDirectory(calls[d])
        /\ calls[c].user = calls[d].user /\ calls[c].path = calls[d].path
        => /\ calls[c].callbacks = calls[d].callbacks
           /\ calls[c].callbacks =
                 <<Success(EntryVal([name |-> calls[c].path, tag |-> "folder",
                                     size |-> UndefinedVal]))>>

\* the second call on notes started after the first completed, and both succeeded
IdempotentCreateDirectoryWitness ==
    /\ CreatedDirectory(calls[1]) /\ CreatedDirectory(calls[2])
    /\ calls[1].path = NotesDir /\ calls[2].path = NotesDir
    /\ calls[1].user = calls[2].user
    /\ 1 \in calls[2].after

NodeAt(fs, p) == IF Exists(fs, p) THEN fs[Canon(p)] ELSE [type |-> "absent"]

StepsOf(op) ==
    IF op = "putObject" THEN <<"mkdirp", "createWriteStream">>
    ELSE IF op = "copyObject" THEN <<"mkdirp", "ln">>
    ELSE <<"mkdirp", "ln", "unlink">>

\* the steps that answer through a callback (createWriteStream returns the
\* sink at once)
AnsweredSteps(op) == IF op = "putObject" THEN 1 ELSE Len(StepsOf(op))

Compound(call) == call.op \in {"putObject", "copyObject", "moveObject"}

StepOrder(call) ==
    /\ Len(call.issued) <= Len(StepsOf(call.op))
    /\ \A i \in 1..Len(call.issued) :
          /\ call.issued[i].fn = StepsOf(call.op)[i]
          /\ \A j \in 1..(i - 1) : Len(call.answers) >= j /\ call.answers[j] = NoErr
    /\ \A j \in 1..Len(call.answers) :
          call.answers[j] # NoErr =>
              /\ j = Len(call.answers) /\ j = Len(call.issued)
              /\ call.callbacks = <<Failure(call.answers[j])>>
    /\ \A k \in 1..Len(call.callbacks) :
          call.callbacks[k].err = NoErr =>
              /\ Len(call.issued) = Len(StepsOf(call.op))
              /\ Len(call.answers) = AnsweredSteps(call.op)
              /\ \A j \in 1..Len(call.answers) : call.answers[j] = NoErr

\* C12: putObject, copyObject and moveObject issue a backend call only after
\* every earlier step of the operation succeeded, in the order mkdirp, then
\* write stream or link, then (move) unlink; the first failing step ends the
\* operation and its error is the one reported; the destination link exists
\* when a move goes on to unlink its source; a success result implies that
\* every step succeeded
StepShortCircuit ==
    [][\A c \in CallIds :
          /\ Compound(calls'[c]) => StepOrder(calls'[c])
          /\ Pending(c, "moveObject", "ln") /\ calls'[c].pc = "unlink"
                => IsObj(backend', calls[c].newFilePath)
      ]_vars

\* a move whose mkdirp succeeded and whose link failed: no unlink was issued,
\* the source is still there
StepShortCircuitWitness ==
    \E c \in CallIds :
        /\ calls[c].op = "moveObject" /\ Completed(calls[c])
        /\ calls[c].path = TodoFile
        /\ Len(calls[c].issued) = 2
        /\ calls[c].answers = <<NoErr, ErrOther>>
        /\ calls[c].callbacks = <<Failure(ErrOther)>>
        /\ IsObj(backend, calls[c].filePath)

\* what a deleteObject has issued, been answered and delivered so far
DeleteOrder(call) ==
    /\ Len(call.issued) <= 2
    /\ call.issued[1].fn = "info"
    /\ Len(call.issued) = 2 =>
          call.issued[2].fn = "unlink" /\ call.answers[1] = NoErr
    /\ Len(call.answers) >= 1 /\ call.answers[1] # NoErr =>
          /\ Len(call.issued) = 1 /\ Completed(call)
          /\ call.callbacks = <<Failure(call.answers[1])>>
    /\ Len(call.answers) = 2 /\ call.answers[2] # NoErr =>
          /\ Completed(call)
          /\ call.callbacks = <<Failure(call.answers[2])>>
    /\ call.answers = <<NoErr, NoErr>> =>
          /\ Completed(call)
          /\ call.callbacks =
                <<Success(EntryVal([name |-> call.path,
                                    tag |-> IF call.entryType = "directory"
                                            THEN "folder" ELSE "file",
                                    size |-> UndefinedVal]))>>

\* C13: deleteObject issues unlink only after info (stat) succeeded; a stat
\* failure is reported with no unlink issued and the namespace unchanged; an
\* unlink failure after a successful stat is reported; on success the entry
\* has the supplied path as name and is a folder exactly when the stat
\* described a directory, a file otherwise
DeleteStatsFirst ==
    [][\A c \in CallIds :
          /\ calls'[c].op = "deleteObject" => DeleteOrder(calls'[c])
          /\ Pending(c, "deleteObject", "info") /\ Completed(calls'[c])
                => backend' = backend /\ Len(calls'[c].issued) = 1
          /\ Pending(c, "deleteObject", "info") /\ calls'[c].pc = "unlink"
                => (calls'[c].entryType = "directory"
                        <=> IsDir(backend, calls[c].filePath))
      ]_vars

\* the empty folder notes was deleted: the entry delivered is a folder
DeleteStatsFirstWitness ==
    \E c \in CallIds :
        /\ calls[c].op = "deleteObject" /\ calls[c].path = NotesDir
        /\ calls[c].answers = <<NoErr, NoErr>>
        /\ calls[c].callbacks[1].result.v.tag = "folder"
        /\ ~Exists(backend, calls[c].filePath)

Upload(call) == call.op = "startMultipartUpload"

\* <basePath>/temp0000
StagingPath ==
    <<"~", "~", "/", "s", "t", "o", "r", "/", "t", "e", "m", "p", "0", "0", "0", "0">>

\* C17: every startMultipartUpload call, of whatever tenant and whatever
\* else is running, makes exactly one create-upload call, on the staging
\* path <basePath>/temp0000, so any two calls use the same staging path
StagingPathConstant ==
    \A c, d \in CallIds :
        Upload(calls[c]) =>
            /\ Len(calls[c].issued) = 1
            /\ calls[c].issued[1].fn = "createUpload"
            /\ calls[c].issued[1].args = <<StagingPath>>
            /\ Upload(calls[d]) => calls[d].issued[1].args = calls[c].issued[1].args

\* two tenants have an upload pending at the same time, on one staging path
StagingPathConstantWitness ==
    /\ Pending(1, "startMultipartUpload", "createUpload")
    /\ Pending(2, "startMultipartUpload", "createUpload")
    /\ calls[1].user # calls[2].user
    /\ calls[1].issued[1].args = calls[2].issued[1].args

\* C18: the owner passed to create-upload is the identity of the calling
\* tenant, so the uploads of two different tenants carry different owners;
\* on success the session id of the backend is delivered unchanged, on
\* failure the error of the backend
UploadOwnerIsCaller ==
    \A c, d \in CallIds :
        Upload(calls[c]) =>
            /\ Upload(calls[d]) /\ calls[c].user # calls[d].user
                  => calls[c].issued[1].account # calls[d].issued[1].account
            /\ Completed(calls[c]) /\ calls[c].answers = <<NoErr>>
                  => \E id \in UploadIds : calls[c].callbacks = <<Success(IdVal(id))>>
            /\ Completed(calls[c]) /\ calls[c].answers # <<NoErr>>
                  => calls[c].callbacks = <<Failure(calls[c].answers[1])>>

\* the most backend calls an operation makes
MaxIssued(op) ==
    IF op \in {"createDirectory", "listDirectory", "getObject", "startMultipartUpload"}
    THEN 1
    ELSE IF op \in {"putObject", "copyObject", "deleteObject"} THEN 2
    ELSE 3

\* every backend call of the operation has responded: its callback ran
\* (createWriteStream has none, it returns the sink) and, for ls, its result
\* emitter came to an error or to its end
Responded(call) ==
    /\ Len(call.answers) =
          Cardinality({i \in 1..Len(call.issued) : call.issued[i].fn # "createWriteStream"})
    /\ call.res \notin {"open"}

\* C19: an operation makes at most MaxIssued backend calls (one, two or
\* three by operation), makes no backend call after one failed, so never
\* repeats a failed call, and once every backend call it made has responded
\* it has delivered an outcome to its caller
BoundedRetryFree ==
    \A c \in CallIds :
        calls[c].op # "none" =>
            /\ Len(calls[c].issued) >= 1
            /\ Len(calls[c].issued) <= MaxIssued(calls[c].op)
            /\ \A i \in 1..Len(calls[c].answers) :
                  calls[c].answers[i] # NoErr => Len(calls[c].issued) = i
            /\ \A i, j \in 1..Len(calls[c].issued) :
                  i # j => calls[c].issued[i] # calls[c].issued[j]
            /\ Responded(calls[c]) => Len(calls[c].callbacks) >= 1

\* a move made its three backend calls, the last of which failed, and
\* completed without making another
BoundedRetryFreeWitness ==
    \E c \in CallIds :
        /\ calls[c].op = "moveObject" /\ Completed(calls[c])
        /\ Len(calls[c].issued) = 3
        /\ calls[c].answers = <<NoErr, NoErr, ErrOther>>
        /\ Len(calls[c].callbacks) = 1

\* ------------------------------------------------------------------------
\* Driver claims (SpecMoves)
\* ------------------------------------------------------------------------

Linked(call) ==
    /\ call.op = "moveObject"
    /\ Len(call.answers) >= 2 /\ call.answers[1] = NoErr /\ call.answers[2] = NoErr

Unlinked(call) == Len(call.answers) = 3 /\ call.answers[3] = NoErr

\* two moves of one source to different destinations, neither started after
\* the other completed, both of whose links succeeded
MovesRace(c, d) ==
    /\ c # d /\ Linked(calls[c]) /\ Linked(calls[d])
    /\ calls[c].filePath = calls[d].filePath
    /\ calls[c].newFilePath # calls[d].newFilePath
    /\ c \notin calls[d].after /\ d \notin calls[c].after

\* C14: when two concurrent moves of the same source to different
\* destinations both had their link succeed, both destinations are present,
\* the source is unlinked by at most one of them, and a call whose unlink
\* failed reports that failure, not success
ConcurrentMovesRace ==
    \A c, d \in CallIds :
        MovesRace(c, d) =>
            /\ IsObj(backend, calls[c].newFilePath)
            /\ IsObj(backend, calls[d].newFilePath)
            /\ ~(Unlinked(calls[c]) /\ Unlinked(calls[d]))
            /\ Len(calls[c].answers) = 3 /\ calls[c].answers[3] # NoErr
                  => calls[c].callbacks = <<Failure(calls[c].answers[3])>>

\* both links succeeded before either unlink ran; then one call removed the
\* source and reported success, the other found it gone and reported that
ConcurrentMovesRaceWitness ==
    \E c, d \in CallIds :
        /\ MovesRace(c, d)
        /\ Unlinked(calls[c]) /\ calls[c].callbacks[1].err = NoErr
        /\ calls[d].answers = <<NoErr, NoErr, ErrNotFound>>
        /\ calls[d].callbacks = <<Failure(ErrNotFound)>>
        /\ ~Exists(backend, calls[c].filePath)
        /\ IsObj(backend, calls[c].newFilePath) /\ IsObj(backend, calls[d].newFilePath)

\* ------------------------------------------------------------------------
\* Driver claims (SpecList)
\* ------------------------------------------------------------------------

\* a listing whose ls succeeded
Listing(call) == call.op = "listDirectory" /\ call.answers = <<NoErr>>

\* C15: when the result stream of a listing emits an error event, after any
\* number of object and directory events, the caller's callback is invoked
\* once, with that error and none of the entries, and no success result is
\* delivered, also when the stream emits end after the error
ListMidStreamError ==
    [][\A c \in CallIds :
          /\ Listing(calls[c]) /\ Listing(calls'[c])
          /\ calls[c].res = "errored" \/ calls'[c].res = "errored"
          => calls'[c].callbacks = <<Failure(ErrOther)>>
      ]_vars

\* the entry of a descriptor emitted by the stream
EntryOf(d) ==
    [name |-> d.name, tag |-> IF d.type = "object" THEN "file" ELSE "folder",
     size |-> d.size]

\* C16: when the stream of a listing ends without having emitted an error,
\* the collection delivered holds one entry per object and directory event
\* emitted, in the order of the events, a file for an object descriptor and
\* a folder for any other
ListCollectsInArrivalOrder ==
    [][\A c \in CallIds :
          /\ Listing(calls[c]) /\ calls[c].res = "open" /\ calls'[c].res = "ended"
          => calls'[c].callbacks =
                <<Success(ListVal([i \in 1..Len(calls[c].stream) |->
                                      EntryOf(calls[c].stream[i])]))>>
      ]_vars

\* a listing delivered the file c, the folder b and the file a, in that order
ListCollectsInArrivalOrderWitness ==
    \E c \in CallIds :
        /\ Listing(calls[c]) /\ calls[c].res = "ended"
        /\ Len(calls[c].callbacks) = 1 /\ calls[c].callbacks[1].err = NoErr
        /\ LET es == calls[c].callbacks[1].result.v
           IN  /\ Len(es) = 3
               /\ <<es[1].name, es[2].name, es[3].name>> = <<<<"c">>, <<"b">>, <<"a">>>>
               /\ <<es[1].tag, es[2].tag, es[3].tag>> = <<"file", "folder", "file">>

\* ------------------------------------------------------------------------
\* Driver claims (SpecEmpty)
\* ------------------------------------------------------------------------

\* putObject(Tenant1, "notes/todo.txt") whose mkdirp succeeded
PutTodo(call) ==
    /\ call.op = "putObject" /\ call.user = Tenant1 /\ call.path = TodoFile
    /\ call.answers = <<NoErr>>

\* listDirectory(Tenant1, "notes") in slot d, started after the call in slot c
\* completed, no other call having been made
ListNotesAfter(d, c) ==
    /\ started = 2 /\ c # d /\ c \in calls[d].after
    /\ calls[d].op = "listDirectory" /\ calls[d].user = Tenant1
    /\ calls[d].path = NotesDir

TodoEntries(es) ==
    /\ Len(es) = 1
    /\ es[1].name = <<"t", "o", "d", "o", ".", "t", "x", "t">>
    /\ es[1].tag = "file"

\* C11: on an empty backend, once putObject(Tenant1, "notes/todo.txt") has
\* completed and its sink was written and closed, the parent directory of
\* the resolved path exists, and a listDirectory(Tenant1, "notes") made
\* afterwards, whose ls succeeds and whose stream ends without an error,
\* delivers exactly one entry: todo.txt, a file
EndToEndPutThenList ==
    [][\A c \in CallIds :
          /\ started = 1 /\ PutTodo(calls[c]) /\ calls[c].pc = "sink"
                /\ Completed(calls'[c])
             => /\ IsDir(backend', posixDirname(calls[c].filePath))
                /\ IsObj(backend', calls[c].filePath)
          /\ \A d \in CallIds :
                /\ PutTodo(calls[c]) /\ Completed(calls[c]) /\ ListNotesAfter(d, c)
                /\ calls[d].answers = <<NoErr>> /\ calls[d].res = "open"
                /\ Completed(calls'[d])
                => /\ IsDir(backend, posixDirname(calls[c].filePath))
                   /\ Len(calls'[d].callbacks) = 1
                   /\ calls'[d].callbacks[1].err = NoErr
                   /\ calls'[d].callbacks[1].result.t = "entries"
                   /\ TodoEntries(calls'[d].callbacks[1].result.v)
      ]_vars

\* the put completed, then the listing of notes ran to its end
EndToEndPutThenListWitness ==
    \E c, d \in CallIds :
        /\ PutTodo(calls[c]) /\ Completed(calls[c]) /\ ListNotesAfter(d, c)
        /\ calls[d].answers = <<NoErr>> /\ calls[d].res = "ended"
        /\ Len(calls[d].callbacks) = 1
        /\ TodoEntries(calls[d].callbacks[1].result.v)
        /\ IsObj(backend, calls[c].filePath)

====
